---- MODULE Spec2Model ----
(***************************************************************************)
(* Tech-hub activity aggregation (src/api/og-story.js, lines 335-474):     *)
(* aggregateTechActivity folds clustered news events into one accumulator  *)
(* per matched hub, scores and classifies each hub and returns the records *)
(* sorted by score; getTopActiveHubs slices that list.                     *)
(*                                                                         *)
(* Numbers.  Velocities, confidences and scores are JavaScript doubles.    *)
(* Every such quantity is kept here as an integer count of quarters        *)
(* (0.25): quarters and their small sums and products are exact in binary  *)
(* floating point, so the arithmetic below is the arithmetic the code      *)
(* performs on these inputs.  Q(x) is the whole number x in quarters.      *)
(***************************************************************************)
EXTENDS Integers, Sequences, FiniteSets, TLC

VARIABLES
    clusters,   \* the ClusteredEvent[] argument
    matcher,    \* inferHubsFromTitle: title -> sequence of HubMatch
    lowMatch,   \* low-confidence matches the matcher returned on top of `matcher` in the last call
    pc,         \* which function returned last ("idle" before any call)
    arg,        \* the limit passed to getTopActiveHubs (0 otherwise)
    ret         \* the value the last call returned

vars == <<clusters, matcher, lowMatch, pc, arg, ret>>

\* ------------------------------------------------------------------ bounds
MaxEvents == 3
MaxLimit == 3

\* ------------------------------------------------------------------ numbers
Q(x) == 4 * x

ConfidenceThreshold == 2

Min(a, b) == IF a <= b THEN a ELSE b

Max(a, b) == IF a >= b THEN a ELSE b

\* ------------------------------------------------------------------ inputs
Titles == {"a", "b", "c"}

HubIndex ==
    [ sf  |-> [name |-> "Bay Area",  tier |-> "mega"],
      blr |-> [name |-> "Bangalore", tier |-> "major"],
      nbo |-> [name |-> "Nairobi",   tier |-> "emerging"],
      xx  |-> [name |-> "Unlisted",  tier |-> "undefined"] ]

HubIds == DOMAIN HubIndex

HubMatch(h, c, k) ==
    [hubId |-> h, hub |-> HubIndex[h], confidence |-> c, matchedKeyword |-> k]

NoVelocity == [present |-> FALSE, sourcesPerHour |-> 0]

Velocity(v) == [present |-> TRUE, sourcesPerHour |-> v]

ClusteredEvent(t, l, v, a) ==
    [primaryTitle |-> t, primaryLink |-> l, velocity |-> v, isAlert |-> a]

\* velocities in quarters: absent, 0.25, 2.0, -4.0, 0.5
EventPool ==
    { ClusteredEvent("a", "l1", NoVelocity,    FALSE),
      ClusteredEvent("a", "l2", Velocity(1),   FALSE),
      ClusteredEvent("b", "l3", Velocity(8),   FALSE),
      ClusteredEvent("b", "l4", Velocity(-16), FALSE),
      ClusteredEvent("c", "l5", Velocity(2),   TRUE) }

\* confidences in quarters: 0, 0.25, 0.5, 0.75, 1.0
Matchers ==
    { [ a |-> << HubMatch("sf", 3, "ai") >>,
        b |-> << HubMatch("blr", 4, "chips"), HubMatch("sf", 2, "ai") >>,
        c |-> << HubMatch("nbo", 1, "ai"), HubMatch("sf", 4, "ai") >> ],
      [ a |-> << HubMatch("nbo", 3, "ai"), HubMatch("nbo", 2, "vc") >>,
        b |-> << HubMatch("nbo", 4, "ai") >>,
        c |-> << HubMatch("xx", 2, "ai"), HubMatch("sf", 1, "vc") >> ],
      [ a |-> << HubMatch("xx", 4, "ai") >>,
        b |-> << >>,
        c |-> << HubMatch("xx", 3, "vc"), HubMatch("blr", 3, "vc"), HubMatch("sf", 0, "ai") >> ],
      [ a |-> << HubMatch("sf", 1, "ai"), HubMatch("nbo", 3, "ai") >>,
        b |-> << HubMatch("blr", 2, "ai") >>,
        c |-> << HubMatch("nbo", 4, "ai"), HubMatch("blr", 1, "vc") >> ] }

SeqsUpTo(S, n) == UNION { [1..k -> S] : k \in 0..n }

Limits == (-2)..MaxLimit

\* ------------------------------------------------------------------ matcher
InsertAt(s, at, x) == SubSeq(s, 1, at) \o <<x>> \o SubSeq(s, at + 1, Len(s))

\* what inferHubsFromTitle returns per title when it also reports the matches in low
inferHubsFromTitle(m, low) ==
    [ t \in Titles |->
        IF low # << >> /\ low[1].title = t
        THEN InsertAt(m[t], low[1].at, low[1].match)
        ELSE m[t] ]

\* ------------------------------------------------------------------ accumulation
\* mutant: the lookup never finds the hub's entry
MapGetMiss(accs, hubId, i) == 0

\* hubAccumulators.get: position of the hub's entry in the insertion-ordered Map, 0 if none
RECURSIVE MapGet(_, _, _)
MapGet(accs, hubId, i) ==
    IF i > Len(accs) THEN 0
    ELSE IF accs[i].hubId = hubId THEN i
    ELSE MapGet(accs, hubId, i + 1)

NewAccumulator(match) ==
    [ hubId           |-> match.hubId,
      hub             |-> match.hub,
      clusters        |-> << >>,
      matchedKeywords |-> << >>,
      totalVelocity   |-> 0,
      hasBreaking     |-> FALSE ]

\* mutant: an array push instead of Set.add
SetAddAlways(set, x) == Append(set, x)

\* Set.add on an insertion-ordered Set
SetAdd(set, x) ==
    IF \E i \in 1..Len(set) : set[i] = x THEN set ELSE Append(set, x)

\* cluster.velocity?.sourcesPerHour is truthy
HasVelocity(cluster) ==
    cluster.velocity.present /\ cluster.velocity.sourcesPerHour # 0

Absorb(acc, cluster, match) ==
    [ acc EXCEPT
        !.clusters        = Append(@, cluster),
        !.matchedKeywords = SetAdd(@, match.matchedKeyword),
        !.totalVelocity   = IF HasVelocity(cluster)
                            THEN @ + cluster.velocity.sourcesPerHour ELSE @,
        !.hasBreaking     = IF cluster.isAlert THEN TRUE ELSE @ ]

\* mutant: the confidence filter is missing
SkippedNever(match) == FALSE

Skipped(match) == match.confidence < ConfidenceThreshold

AccumulateMatch(accs, cluster, match) ==
    IF Skipped(match) THEN accs
    ELSE LET i == MapGet(accs, match.hubId, 1) IN
         IF i = 0
         THEN Append(accs, Absorb(NewAccumulator(match), cluster, match))
         ELSE [accs EXCEPT ![i] = Absorb(@, cluster, match)]

RECURSIVE AccumulateMatches(_, _, _)
AccumulateMatches(accs, cluster, matches) ==
    IF matches = << >> THEN accs
    ELSE AccumulateMatches(AccumulateMatch(accs, cluster, Head(matches)),
                           cluster, Tail(matches))

RECURSIVE Accumulate(_, _, _)
Accumulate(accs, cs, infer) ==
    IF cs = << >> THEN accs
    ELSE Accumulate(AccumulateMatches(accs, Head(cs), infer[Head(cs).primaryTitle]),
                    Tail(cs), infer)

\* ------------------------------------------------------------------ scoring
\* mutant: a different bonus table, and a non-zero default
TierBonusOther(tier) ==
    CASE tier = "mega"     -> 15
      [] tier = "major"    -> 10
      [] tier = "emerging" -> 0
      [] OTHER             -> 5

TIER_BONUS(tier) ==
    CASE tier = "mega"     -> 15
      [] tier = "major"    -> 8
      [] tier = "emerging" -> 0
      [] OTHER             -> 0

\* mutant: the score is not capped
ScoreUncapped(acc) ==
    Q(Len(acc.clusters) * 15)
    + Q(IF acc.hasBreaking THEN 30 ELSE 0)
    + acc.totalVelocity * 5
    + Q(TIER_BONUS(acc.hub.tier))

\* in quarters
Score(acc) ==
    Min(Q(100),
        Q(Len(acc.clusters) * 15)
        + Q(IF acc.hasBreaking THEN 30 ELSE 0)
        + acc.totalVelocity * 5
        + Q(TIER_BONUS(acc.hub.tier)))

\* mutant: breaking news does not override the numeric threshold
ActivityLevelByScore(score, hasBreaking) ==
    IF score >= Q(50) THEN "high"
    ELSE IF score >= Q(20) THEN "elevated"
    ELSE "low"

ActivityLevel(score, hasBreaking) ==
    IF score >= Q(50) \/ hasBreaking THEN "high"
    ELSE IF score >= Q(20) THEN "elevated"
    ELSE "low"

\* Array.prototype.slice(start, end) with start >= 0
Slice(s, start, end) ==
    LET to == IF end < 0 THEN Max(Len(s) + end, 0) ELSE Min(end, Len(s))
    IN  SubSeq(s, start + 1, to)

Story(c) == [title |-> c.primaryTitle, link |-> c.primaryLink]

\* mutant: the latest three stories, slice(-3)
TopStoriesLatest(cs) ==
    LET last == SubSeq(cs, Max(1, Len(cs) - 2), Len(cs))
    IN  [i \in 1..Len(last) |-> Story(last[i])]

TopStories(cs) ==
    LET first == Slice(cs, 0, 3) IN [i \in 1..Len(first) |-> Story(first[i])]

\* mutant: a single slow story is falling
TrendIgnoringCount(totalVelocity, newsCount) ==
    IF totalVelocity > 8 THEN "rising"
    ELSE IF totalVelocity < 2 THEN "falling"
    ELSE "stable"

\* thresholds 2 and 0.5 in quarters
Trend(totalVelocity, newsCount) ==
    IF totalVelocity > 8 THEN "rising"
    ELSE IF totalVelocity < 2 /\ newsCount > 1 THEN "falling"
    ELSE "stable"

Activity(acc) ==
    [ hubId           |-> acc.hubId,
      name            |-> acc.hub.name,
      tier            |-> acc.hub.tier,
      activityLevel   |-> ActivityLevel(Score(acc), acc.hasBreaking),
      score           |-> Score(acc),
      newsCount       |-> Len(acc.clusters),
      hasBreaking     |-> acc.hasBreaking,
      topStories      |-> TopStories(acc.clusters),
      trend           |-> Trend(acc.totalVelocity, Len(acc.clusters)),
      matchedKeywords |-> acc.matchedKeywords ]

\* ------------------------------------------------------------------ ranking
\* mutant: ascending comparator
CompareAscending(a, b) == a.score - b.score

\* comparator (a, b) => b.score - a.score: negative when a goes first
Compare(a, b) == b.score - a.score

\* stable insertion: x goes after every element it does not strictly precede
RECURSIVE InsertSorted(_, _)
InsertSorted(sorted, x) ==
    IF sorted = << >> THEN << x >>
    ELSE IF Compare(x, Head(sorted)) < 0 THEN << x >> \o sorted
    ELSE << Head(sorted) >> \o InsertSorted(Tail(sorted), x)

\* Array.prototype.sort (stable)
RECURSIVE Sort(_, _)
Sort(done, rest) ==
    IF rest = << >> THEN done
    ELSE Sort(InsertSorted(done, Head(rest)), Tail(rest))

aggregateTechActivity(cs, infer) ==
    LET accs == Accumulate(<< >>, cs, infer)
        activities == [i \in 1..Len(accs) |-> Activity(accs[i])]
    IN  Sort(<< >>, activities)

\* mutant: off by one in the slice
getTopActiveHubsOneMore(cs, infer, limit) ==
    Slice(aggregateTechActivity(cs, infer), 0, limit + 1)

getTopActiveHubs(cs, infer, limit) ==
    Slice(aggregateTechActivity(cs, infer), 0, limit)

\* ------------------------------------------------------------------ behaviour
\* The functions are pure: a behaviour is one call on the inputs Init draws.
NoLow == << >>

Init ==
    /\ clusters \in SeqsUpTo(EventPool, MaxEvents)
    /\ matcher \in Matchers
    /\ lowMatch = NoLow
    /\ pc = "idle"
    /\ arg = 0
    /\ ret = << >>

\* aggregateTechActivity(clusters)
Aggregate ==
    /\ pc = "idle"
    /\ lowMatch' = NoLow
    /\ ret' = aggregateTechActivity(clusters, inferHubsFromTitle(matcher, lowMatch'))
    /\ pc' = "aggregateTechActivity"
    /\ arg' = 0
    /\ UNCHANGED <<clusters, matcher>>

\* aggregateTechActivity(clusters) while the matcher reports, for title t, one more
\* match, of a confidence just below the threshold, first or last in its result
AggregateWithLowMatch ==
    \E t \in Titles, h \in HubIds, c \in {ConfidenceThreshold - 1} :
      \E at \in {0, Len(matcher[t])} :
        /\ pc = "idle"
        /\ lowMatch' = << [title |-> t, at |-> at, match |-> HubMatch(h, c, "edge")] >>
        /\ ret' = aggregateTechActivity(clusters, inferHubsFromTitle(matcher, lowMatch'))
        /\ pc' = "aggregateTechActivity"
        /\ arg' = 0
        /\ UNCHANGED <<clusters, matcher>>

\* getTopActiveHubs(clusters, limit)
GetTopActiveHubs ==
    \E limit \in Limits :
        /\ pc = "idle"
        /\ lowMatch' = NoLow
        /\ ret' = getTopActiveHubs(clusters, inferHubsFromTitle(matcher, lowMatch'), limit)
        /\ pc' = "getTopActiveHubs"
        /\ arg' = limit
        /\ UNCHANGED <<clusters, matcher>>

Next == Aggregate \/ AggregateWithLowMatch \/ GetTopActiveHubs

Spec == Init /\ [][Next]_vars

\* ------------------------------------------------------------------ reference
\* The quantities the claims speak of, read off the input directly.
Returned == pc = "aggregateTechActivity"

\* the matcher's results during the last call
Inferred == inferHubsFromTitle(matcher, lowMatch)

\* every (event, match) pair of the input, events in input order, matches in result order
RECURSIVE Flatten(_, _)
Flatten(cs, infer) ==
    IF cs = << >> THEN << >>
    ELSE LET ms == infer[Head(cs).primaryTitle]
         IN  [i \in 1..Len(ms) |-> [cluster |-> Head(cs), match |-> ms[i]]]
             \o Flatten(Tail(cs), infer)

Confident(p) == p.match.confidence >= ConfidenceThreshold

\* the stories of hub h: the pairs matching h with confidence >= 0.5, in arrival order
StoriesOf(h) ==
    SelectSeq(Flatten(clusters, Inferred), LAMBDA p : p.match.hubId = h /\ Confident(p))

RECURSIVE SumVelocity(_)
SumVelocity(stories) ==
    IF stories = << >> THEN 0
    ELSE (IF Head(stories).cluster.velocity.present
          THEN Head(stories).cluster.velocity.sourcesPerHour ELSE 0)
         + SumVelocity(Tail(stories))

AnyAlert(stories) == \E k \in 1..Len(stories) : stories[k].cluster.isAlert

ExpectedBonus(h) ==
    CASE HubIndex[h].tier = "mega"  -> 15
      [] HubIndex[h].tier = "major" -> 8
      [] OTHER                      -> 0

\* newsCount * 15 + (hasBreaking ? 30 : 0) + totalVelocity * 5 + tierBonus, in quarters
RawScore(h) ==
    Q(15 * Len(StoriesOf(h)))
    + (IF AnyAlert(StoriesOf(h)) THEN Q(30) ELSE 0)
    + 5 * SumVelocity(StoriesOf(h))
    + Q(ExpectedBonus(h))

NonNegativeVelocities(stories) ==
    \A k \in 1..Len(stories) : stories[k].cluster.velocity.sourcesPerHour >= 0

\* ------------------------------------------------------------------ claims
\* C1 (as stated): every returned record has a score in [0, 100], whatever the
\* velocities, alert flags, tiers and confidences of the input.
C1_ScoreInRange ==
    Returned => \A i \in 1..Len(ret) : ret[i].score >= 0 /\ ret[i].score <= Q(100)

\* C1 (amended): every returned record has score <= 100, and score >= 0 whenever
\* none of the hub's accumulated stories has a negative sourcesPerHour.
C1_ScoreCapped ==
    Returned =>
        \A i \in 1..Len(ret) :
            /\ ret[i].score <= Q(100)
            /\ NonNegativeVelocities(StoriesOf(ret[i].hubId)) => ret[i].score >= 0

C1_Witness ==
    /\ Returned
    /\ \E i \in 1..Len(ret) :
          /\ RawScore(ret[i].hubId) > Q(100)
          /\ NonNegativeVelocities(StoriesOf(ret[i].hubId))
          /\ ret[i].score = Q(100)

\* C2: activityLevel is 'high' exactly when score >= 50 or hasBreaking, 'elevated'
\* exactly when that fails and score >= 20, 'low' otherwise; so hasBreaking implies 'high'.
C2_ActivityLevel ==
    Returned =>
        \A i \in 1..Len(ret) :
            LET r == ret[i]
                high == r.score >= Q(50) \/ r.hasBreaking
            IN  /\ r.activityLevel = "high" <=> high
                /\ r.activityLevel = "elevated" <=> (~high /\ r.score >= Q(20))
                /\ r.activityLevel = "low" <=> (~high /\ r.score < Q(20))
                /\ r.hasBreaking => r.activityLevel = "high"

C2_Witness ==
    /\ Returned
    /\ \E i \in 1..Len(ret) :
          ret[i].hasBreaking /\ ret[i].score < Q(50) /\ ret[i].activityLevel = "high"
    /\ \E i \in 1..Len(ret) : ret[i].activityLevel = "elevated"

\* C3: trend is 'rising' iff totalVelocity > 2, 'falling' iff totalVelocity < 0.5 and
\* newsCount > 1, and 'stable' otherwise (a single slow story is 'stable').
C3_Trend ==
    Returned =>
        \A i \in 1..Len(ret) :
            LET tv == SumVelocity(StoriesOf(ret[i].hubId))
                n  == Len(StoriesOf(ret[i].hubId))
            IN  /\ ret[i].trend = "rising" <=> tv > 8
                /\ ret[i].trend = "falling" <=> (tv < 2 /\ n > 1)
                /\ ret[i].trend = "stable" <=> (tv <= 8 /\ ~(tv < 2 /\ n > 1))

C3_Witness ==
    /\ Returned
    /\ \E i \in 1..Len(ret) :
          /\ Len(StoriesOf(ret[i].hubId)) = 1
          /\ SumVelocity(StoriesOf(ret[i].hubId)) < 2
          /\ ret[i].trend = "stable"
    /\ \E i \in 1..Len(ret) : ret[i].trend = "falling"

\* C4: the returned list is sorted by score, non-increasing.
C4_Sorted ==
    Returned => \A i \in 1..(Len(ret) - 1) : ret[i].score >= ret[i + 1].score

\* the hub met first in the input is not the one ranked first
C4_Witness ==
    /\ Returned
    /\ Len(ret) >= 2
    /\ ret[1].score > ret[Len(ret)].score
    /\ LET kept == SelectSeq(Flatten(clusters, Inferred), Confident)
       IN  kept[1].match.hubId = ret[Len(ret)].hubId

\* C5 (as stated): getTopActiveHubs(clusters, n) returns exactly the first
\* min(n, total) records of the sorted list, in order, for every limit n.
C5_TopAnyLimit ==
    pc = "getTopActiveHubs" =>
        LET all == aggregateTechActivity(clusters, Inferred)
        IN  /\ Len(ret) = Min(arg, Len(all))
            /\ \A i \in 1..Len(ret) : ret[i] = all[i]

\* C5 (amended): the same, for every limit n >= 0.
C5_TopNonNegativeLimit ==
    (pc = "getTopActiveHubs" /\ arg >= 0) =>
        LET all == aggregateTechActivity(clusters, Inferred)
        IN  /\ Len(ret) = Min(arg, Len(all))
            /\ \A i \in 1..Len(ret) : ret[i] = all[i]

C5_Witness ==
    /\ pc = "getTopActiveHubs"
    /\ arg >= 1
    /\ arg < Len(aggregateTechActivity(clusters, Inferred))
    /\ Len(ret) = arg

\* C6: a match with confidence below 0.5 added to the matcher's result for an event
\* leaves the output identical; a match with confidence exactly 0.5 is kept.
C6_LowConfidenceIgnored ==
    Returned =>
        /\ lowMatch # NoLow =>
               ret = aggregateTechActivity(clusters, inferHubsFromTitle(matcher, NoLow))
        /\ \A k \in 1..Len(Flatten(clusters, Inferred)) :
               LET p == Flatten(clusters, Inferred)[k]
               IN  p.match.confidence = ConfidenceThreshold =>
                       \E i \in 1..Len(ret) : ret[i].hubId = p.match.hubId

\* the extra match is on an event of the input, for a hub of the output, and some
\* other match sits exactly on the threshold
C6_Witness ==
    /\ Returned
    /\ lowMatch # NoLow
    /\ \E j \in 1..Len(clusters) : clusters[j].primaryTitle = lowMatch[1].title
    /\ \E i \in 1..Len(ret) : ret[i].hubId = lowMatch[1].match.hubId
    /\ \E k \in 1..Len(Flatten(clusters, Inferred)) :
          Flatten(clusters, Inferred)[k].match.confidence = ConfidenceThreshold

\* C7: topStories has length min(3, newsCount) and holds the {title, link} of the
\* hub's first stories in arrival order.
C7_TopStories ==
    Returned =>
        \A i \in 1..Len(ret) :
            LET st == StoriesOf(ret[i].hubId)
                top == ret[i].topStories
            IN  /\ Len(top) = Min(3, ret[i].newsCount)
                /\ Len(top) = Min(3, Len(st))
                /\ Len(top) <= 3
                /\ \A k \in 1..Len(top) :
                       top[k] = [title |-> st[k].cluster.primaryTitle,
                                 link  |-> st[k].cluster.primaryLink]

\* a hub with more than three stories whose fourth story differs from its first
C7_Witness ==
    /\ Returned
    /\ \E i \in 1..Len(ret) :
          LET st == StoriesOf(ret[i].hubId)
          IN  /\ Len(st) > 3
              /\ st[4].cluster # st[1].cluster
              /\ st[2].cluster # st[3].cluster

\* C8: a hub has a record iff some event has a match to it with confidence >= 0.5;
\* there is one record per such hub, and every record has newsCount >= 1.
C8_OneRecordPerMatchedHub ==
    Returned =>
        /\ {ret[i].hubId : i \in 1..Len(ret)} = {h \in HubIds : StoriesOf(h) # << >>}
        /\ \A i, j \in 1..Len(ret) : ret[i].hubId = ret[j].hubId => i = j
        /\ \A i \in 1..Len(ret) : ret[i].newsCount >= 1

\* a hub matched twice has one record while a hub matched only below 0.5 has none
C8_Witness ==
    /\ Returned
    /\ \E i \in 1..Len(ret) : Len(StoriesOf(ret[i].hubId)) >= 2
    /\ \E k \in 1..Len(Flatten(clusters, Inferred)) :
          LET h == Flatten(clusters, Inferred)[k].match.hubId
          IN  \A i \in 1..Len(ret) : ret[i].hubId # h

\* C9: matchedKeywords has no duplicates and is exactly the set of keywords of the
\* hub's matches with confidence >= 0.5.
C9_UniqueKeywords ==
    Returned =>
        \A i \in 1..Len(ret) :
            LET kw == ret[i].matchedKeywords
                st == StoriesOf(ret[i].hubId)
            IN  /\ \A a, b \in 1..Len(kw) : kw[a] = kw[b] => a = b
                /\ {kw[a] : a \in 1..Len(kw)}
                       = {st[k].match.matchedKeyword : k \in 1..Len(st)}

\* the same keyword matched several events of a hub that has two keywords
C9_Witness ==
    /\ Returned
    /\ \E i \in 1..Len(ret) :
          /\ Len(ret[i].matchedKeywords) = 2
          /\ Len(StoriesOf(ret[i].hubId)) > 2

\* C10: score = min(100, newsCount * 15 + (hasBreaking ? 30 : 0) + totalVelocity * 5
\* + tierBonus), an absent velocity counting 0 and an absent or unknown tier 0.
C10_ScoreFormula ==
    Returned =>
        \A i \in 1..Len(ret) :
            LET st == StoriesOf(ret[i].hubId)
            IN  /\ ret[i].newsCount = Len(st)
                /\ ret[i].hasBreaking <=> AnyAlert(st)
                /\ ret[i].score = Min(Q(100), RawScore(ret[i].hubId))

\* a hub without a tier, with a story without velocity, next to a major hub
C10_Witness ==
    /\ Returned
    /\ \E i \in 1..Len(ret) :
          /\ ret[i].tier = "undefined"
          /\ \E k \in 1..Len(StoriesOf(ret[i].hubId)) :
                ~StoriesOf(ret[i].hubId)[k].cluster.velocity.present
    /\ \E i \in 1..Len(ret) : ret[i].tier = "major" /\ ret[i].hasBreaking
    /\ \E i \in 1..Len(ret) : ret[i].score < Q(100)

====
